---- MODULE Spec2Model ----
(***************************************************************************)
(* Market Forge / Printful integration.                                    *)
(*                                                                         *)
(*   lib/printful, first version   (src/unnamed/part_000)  "v1"            *)
(*   lib/printful, store-ID version (src/unnamed/part_001) "v2"            *)
(*   /api/printful route            (src/unnamed/part_004)                 *)
(*   PrintfulBrowser component      (src/components/PrintfulBrowser.tsx)   *)
(*   marketplace download route     (src/app/api/marketplace/download/     *)
(*                                   [slug]/route.ts)                      *)
(*                                                                         *)
(* JavaScript values are records [t, n, s, p]: t the type tag, n the       *)
(* number (or boolean 0/1), s the string (or the name of an opaque         *)
(* object), p the variant list of a product object.                        *)
(***************************************************************************)
EXTENDS Integers, Sequences, FiniteSets, TLC

VARIABLES
    apiKey,      \* process.env.PRINTFUL_API_KEY
    storeIdEnv,  \* process.env.PRINTFUL_STORE_ID
    ver,         \* which version of lib/printful is loaded: "v1" | "v2"
    cur,         \* the client function call in progress (or idle)
    net,         \* the fetch() calls issued by the call in progress
    prev,        \* the caller's previous completed call
    route,       \* the /api/printful handler invocation in progress
    ui,          \* the PrintfulBrowser component's state
    dl           \* the marketplace download handler invocation in progress

vars == <<apiKey, storeIdEnv, ver, cur, net, prev, route, ui, dl>>

----------------------------------------------------------------------------
(* JavaScript values *)

Undef == [t |-> "undefined", n |-> 0, s |-> "", p |-> <<>>]
Null == [t |-> "null", n |-> 0, s |-> "", p |-> <<>>]
Str(x) == [t |-> "string", n |-> 0, s |-> x, p |-> <<>>]
Num(k) == [t |-> "number", n |-> k, s |-> "", p |-> <<>>]
NaN == [t |-> "number", n |-> 0, s |-> "NaN", p |-> <<>>]
Bool(b) == [t |-> "boolean", n |-> IF b THEN 1 ELSE 0, s |-> "", p |-> <<>>]
Obj(x) == [t |-> "object", n |-> 0, s |-> x, p |-> <<>>]
Arr(items) == [t |-> "array", n |-> 0, s |-> "", p |-> items]
\* a product object: its id and its variants, each [id, price]
Product(id, variants) == [t |-> "object", n |-> id, s |-> "product", p |-> variants]

\* ToBoolean: what `!x`, `x || y` and `if (x)` test
Truthy(v) ==
    CASE v.t = "undefined" -> FALSE
      [] v.t = "null" -> FALSE
      [] v.t = "string" -> v.s # ""
      [] v.t = "number" -> v.n # 0 /\ v.s # "NaN"
      [] v.t = "boolean" -> v.n = 1
      [] OTHER -> TRUE

\* x || y
Or(x, y) == IF Truthy(x) THEN x ELSE y

\* String(x), as in a template literal and in new Error(x).message; an array
\* is its elements joined with commas
RECURSIVE JsToString(_)
JsToString(v) ==
    CASE v.t = "undefined" -> "undefined"
      [] v.t = "null" -> "null"
      [] v.t = "string" -> v.s
      [] v.t = "number" -> IF v = NaN THEN "NaN" ELSE ToString(v.n)
      [] v.t = "boolean" -> IF v.n = 1 THEN "true" ELSE "false"
      [] v.t = "array" ->
            LET Join[i \in 0..Len(v.p)] ==
                    IF i = 0 THEN ""
                    ELSE IF i = 1 THEN JsToString(v.p[1])
                    ELSE Join[i - 1] \o "," \o JsToString(v.p[i])
            IN Join[Len(v.p)]
      [] OTHER -> "[object Object]"

\* {...a, ...b}: the later spread wins
Spread(a, b) == b @@ a

EmptyObject == [k \in {} |-> Undef]
NoHeaders == [k \in {} |-> ""]

----------------------------------------------------------------------------
(* lib/printful: configuration and the request wrapper *)

PRINTFUL_API_URL == "https://api.printful.com"
DEFAULT_STORE_ID == "16513682"

\* const PRINTFUL_STORE_ID = process.env.PRINTFUL_STORE_ID || '16513682'
PRINTFUL_STORE_ID(env) == JsToString(Or(env, Str(DEFAULT_STORE_ID)))

KEY_ERROR == "PRINTFUL_API_KEY not configured"

\* getHeaders(): throws, or returns the header object
getHeaders_NoCheck(v, key, storeEnv) ==
    [ throws |-> FALSE, message |-> "",
      headers |-> IF v = "v2"
                  THEN ("Authorization" :> ("Bearer " \o JsToString(key)))
                       @@ ("Content-Type" :> "application/json")
                       @@ ("X-PF-Store-Id" :> PRINTFUL_STORE_ID(storeEnv))
                  ELSE ("Authorization" :> ("Bearer " \o JsToString(key)))
                       @@ ("Content-Type" :> "application/json") ]

getHeaders(v, key, storeEnv) ==
    IF ~Truthy(key)
    THEN [throws |-> TRUE, message |-> KEY_ERROR, headers |-> NoHeaders]
    ELSE [ throws |-> FALSE, message |-> "",
           headers |-> IF v = "v2"
                       THEN ("Authorization" :> ("Bearer " \o JsToString(key)))
                            @@ ("Content-Type" :> "application/json")
                            @@ ("X-PF-Store-Id" :> PRINTFUL_STORE_ID(storeEnv))
                       ELSE ("Authorization" :> ("Bearer " \o JsToString(key)))
                            @@ ("Content-Type" :> "application/json") ]

\* RequestInit: fetch()'s defaults are method GET, no body, no headers
Options(method, body) == [method |-> method, body |-> body, headers |-> NoHeaders]
GetOptions == Options("GET", EmptyObject)

NoRequest == [url |-> "", method |-> "", headers |-> NoHeaders, body |-> EmptyObject]

\* (a wrapper that answers a repeated request from the previous call's result)
printfulRequest_send_Cached(v, key, storeEnv, endpoint, options) ==
    LET h == getHeaders(v, key, storeEnv) IN
    IF h.throws
    THEN [sent |-> FALSE, message |-> h.message, req |-> NoRequest]
    ELSE IF /\ prev.st = "resolved"
            /\ Len(prev.reqs) = 1
            /\ prev.reqs[1].url = PRINTFUL_API_URL \o endpoint
            /\ prev.reqs[1].method = options.method
    THEN [sent |-> FALSE, message |-> "cached", req |-> NoRequest]
    ELSE [ sent |-> TRUE, message |-> "",
           req |-> [ url |-> PRINTFUL_API_URL \o endpoint,
                     method |-> options.method,
                     headers |-> Spread(h.headers, options.headers),
                     body |-> options.body ] ]

\* printfulRequest up to its first await: the argument of fetch() is built
\* (getHeaders() may throw, which rejects the promise before fetch is called)
\* and fetch() is called.
printfulRequest_send(v, key, storeEnv, endpoint, options) ==
    LET h == getHeaders(v, key, storeEnv) IN
    IF h.throws
    THEN [sent |-> FALSE, message |-> h.message, req |-> NoRequest]
    ELSE [ sent |-> TRUE, message |-> "",
           req |-> [ url |-> PRINTFUL_API_URL \o endpoint,
                     method |-> options.method,
                     headers |-> Spread(h.headers, options.headers),
                     body |-> options.body ] ]

\* What the network hands back to one fetch():
\*   failed  fetch() itself rejects
\*   status  the HTTP status (response.ok is 200..299)
\*   parse   what response.json() yields: "invalid" (it rejects), "null", "object"
\*   code, error, result   the fields of the parsed envelope; error is
\*           [present, message]: data.error and data.error.message
HttpOk(resp) == resp.status >= 200 /\ resp.status <= 299

NoError == [present |-> FALSE, message |-> Undef]
ErrorObj(m) == [present |-> TRUE, message |-> m]

\* data.error?.message
ErrorMessageOf(resp) == IF resp.error.present THEN resp.error.message ELSE Undef

FETCH_FAILED == "fetch failed"
JSON_SYNTAX_ERROR == "Unexpected token < in JSON at position 0"
NULL_TYPE_ERROR == "Cannot read properties of null"

Resolved(v) == [st |-> "resolved", val |-> v]
Rejected(m) == [st |-> "rejected", val |-> Str(m)]
Pending == [st |-> "pending", val |-> Undef]

\* printfulRequest after fetch() settles, store-ID version
printfulRequest_v2_LooseCode(resp) ==
    IF resp.failed THEN Rejected(FETCH_FAILED)
    ELSE IF resp.parse = "invalid" THEN Rejected(JSON_SYNTAX_ERROR)
    ELSE IF resp.parse = "null" THEN Rejected(NULL_TYPE_ERROR)
    ELSE IF ~HttpOk(resp)
    THEN Rejected(JsToString(
             Or(Or(ErrorMessageOf(resp), resp.result),
                Str("Printful API error: " \o JsToString(resp.code)))))
    ELSE Resolved(resp.result)

printfulRequest_v2(resp) ==
    IF resp.failed THEN Rejected(FETCH_FAILED)
    ELSE IF resp.parse = "invalid" THEN Rejected(JSON_SYNTAX_ERROR)
    ELSE IF resp.parse = "null" THEN Rejected(NULL_TYPE_ERROR)
    ELSE IF resp.code # Num(200)
    THEN Rejected(JsToString(
             Or(Or(ErrorMessageOf(resp), resp.result),
                Str("Printful API error: " \o JsToString(resp.code)))))
    ELSE Resolved(resp.result)

\* printfulRequest after fetch() settles, first version
printfulRequest_v1(resp) ==
    IF resp.failed THEN Rejected(FETCH_FAILED)
    ELSE IF ~HttpOk(resp)
    THEN IF resp.parse = "null" THEN Rejected(NULL_TYPE_ERROR)
         ELSE Rejected(JsToString(
                  Or(IF resp.parse = "invalid" THEN Undef ELSE resp.result,
                     Str("Printful API error: " \o ToString(resp.status)))))
    ELSE IF resp.parse = "invalid" THEN Rejected(JSON_SYNTAX_ERROR)
    ELSE IF resp.parse = "null" THEN Rejected(NULL_TYPE_ERROR)
    ELSE Resolved(resp.result)

printfulRequest_settle(v, resp) ==
    IF v = "v2" THEN printfulRequest_v2(resp) ELSE printfulRequest_v1(resp)

----------------------------------------------------------------------------
(* lib/printful: the exported functions *)

\* obj.k (undefined when the object has no such property)
Field(obj, k) == IF k \in DOMAIN obj THEN obj[k] ELSE Undef

\* JSON.stringify of an object: properties whose value is undefined are dropped
JsonStringify(obj) ==
    [k \in {f \in DOMAIN obj : obj[f] # Undef} |-> obj[k]]

\* a variant of a product, and its price
Variant(id, price) == [t |-> "object", n |-> id, s |-> "variant", p |-> <<Num(price)>>]
VariantPrice(v) == v.p[1]

\* x.variants of a value x: the variant list, or undefined when x has none
HasVariants(v) == v.t = "object" /\ v.s = "product"
Nullish(v) == v.t \in {"undefined", "null"}

\* arr.slice(0, 5)
SliceFirst5(seq) == SubSeq(seq, 1, IF Len(seq) < 5 THEN Len(seq) ELSE 5)

\* POPULAR_PRODUCTS, in property order (what Object.values walks)
POPULAR_PRODUCTS ==
    << <<"tShirt", 71>>, <<"hoodie", 380>>, <<"mug", 19>>, <<"poster", 1>>,
       <<"phoneCase", 195>>, <<"toteBag", 84>>, <<"sticker", 358>>, <<"canvas", 2>> >>

ObjectValues(table) == [i \in 1..Len(table) |-> table[i][2]]
Lookup(table, key) ==
    LET i == CHOOSE j \in 1..Len(table) : table[j][1] = key IN table[i][2]

V1_SINGLE ==
    { "getCatalog", "getProduct", "createSyncProduct", "createMockup",
      "getMockupResult", "getShippingRates", "createOrder", "getOrder",
      "listOrders", "cancelOrder", "getStoreInfo", "estimateCosts" }
V2_SINGLE ==
    { "getCatalog", "getProduct", "getVariant", "getShippingRates",
      "estimateCosts", "createMockupTask", "getMockupResult", "getStoreInfo",
      "createDraftOrder", "getProductPricing" }
SingleFns(v) == IF v = "v2" THEN V2_SINGLE ELSE V1_SINGLE
CompositeFns(v) == IF v = "v2" THEN {"getPopularProducts"} ELSE {"quickCreateProduct"}

\* listOrders: the query string URLSearchParams builds
ListOrdersQuery(arg) ==
    LET st == IF Truthy(Field(arg, "status"))
              THEN <<"status=" \o JsToString(Field(arg, "status"))>> ELSE <<>>
        of == IF Truthy(Field(arg, "offset"))
              THEN <<"offset=" \o JsToString(Field(arg, "offset"))>> ELSE <<>>
        li == IF Truthy(Field(arg, "limit"))
              THEN <<"limit=" \o JsToString(Field(arg, "limit"))>> ELSE <<>>
        parts == st \o of \o li
        Join[i \in 0..Len(parts)] ==
            IF i = 0 THEN ""
            ELSE IF i = 1 THEN parts[1] ELSE Join[i - 1] \o "&" \o parts[i]
    IN Join[Len(parts)]

\* the endpoint a single-request function passes to printfulRequest
Endpoint(v, fn, arg) ==
    CASE fn = "getCatalog" ->
            IF v = "v2"
            THEN "/products?limit=" \o
                 JsToString(IF Field(arg, "limit") = Undef THEN Num(20)
                            ELSE Field(arg, "limit"))
            ELSE "/products"
      [] fn \in {"getProduct", "getProductPricing"} ->
            "/products/" \o JsToString(Field(arg, "productId"))
      [] fn = "getVariant" -> "/products/variant/" \o JsToString(Field(arg, "variantId"))
      [] fn = "getShippingRates" -> "/shipping/rates"
      [] fn = "estimateCosts" -> "/orders/estimate-costs"
      [] fn \in {"createMockupTask", "createMockup"} ->
            "/mockup-generator/create-task/" \o JsToString(Field(arg, "productId"))
      [] fn = "getMockupResult" ->
            "/mockup-generator/task?task_key=" \o JsToString(Field(arg, "taskKey"))
      [] fn = "getStoreInfo" -> "/stores"
      [] fn \in {"createDraftOrder", "createOrder"} -> "/orders"
      [] fn = "createSyncProduct" -> "/sync/products"
      [] fn \in {"getOrder", "cancelOrder"} -> "/orders/" \o JsToString(Field(arg, "orderId"))
      [] fn = "listOrders" ->
            "/orders" \o (IF ListOrdersQuery(arg) # "" THEN "?" \o ListOrdersQuery(arg) ELSE "")
      [] OTHER -> ""

\* createDraftOrder's body object: {...params, confirm: false}
createDraftOrder_ParamsWin(params) == Spread(("confirm" :> Bool(FALSE)), params)

createDraftOrder_body(params) == Spread(params, ("confirm" :> Bool(FALSE)))

\* the options a single-request function passes to printfulRequest
RequestOptions(v, fn, arg) ==
    CASE fn \in {"getShippingRates", "estimateCosts", "createOrder"} ->
            Options("POST", JsonStringify(arg))
      [] fn \in {"createMockupTask", "createMockup"} ->
            Options("POST", JsonStringify(
                ("variant_ids" :> Field(arg, "variantIds")) @@ ("files" :> Field(arg, "files"))))
      [] fn = "createDraftOrder" ->
            Options("POST", JsonStringify(createDraftOrder_body(arg)))
      [] fn = "createSyncProduct" ->
            Options("POST", JsonStringify(
                ("sync_product.name" :> Field(arg, "name"))
                @@ ("sync_product.thumbnail" :> Field(arg, "thumbnail"))
                @@ ("sync_variants" :> Field(arg, "variants"))))
      [] fn = "cancelOrder" -> Options("DELETE", EmptyObject)
      [] OTHER -> GetOptions

UNDEFINED_TYPE_ERROR == "Cannot read properties of undefined"

\* what a single-request function does with printfulRequest's outcome
After(v, fn, out) ==
    IF out.st # "resolved" THEN out
    ELSE CASE fn = "getStoreInfo" /\ v = "v2" ->
                \* return stores[0]
                IF Nullish(out.val)
                THEN Rejected(IF out.val = Null THEN NULL_TYPE_ERROR ELSE UNDEFINED_TYPE_ERROR)
                ELSE IF out.val.t = "array" /\ Len(out.val.p) > 0
                THEN Resolved(out.val.p[1])
                ELSE Resolved(Undef)
           [] fn = "getProductPricing" ->
                \* detail.variants.slice(0, 5) ... detail.product.title
                IF Nullish(out.val)
                THEN Rejected(IF out.val = Null THEN NULL_TYPE_ERROR ELSE UNDEFINED_TYPE_ERROR)
                ELSE IF ~HasVariants(out.val) THEN Rejected(UNDEFINED_TYPE_ERROR)
                ELSE Resolved([t |-> "object", n |-> out.val.n, s |-> "pricing",
                               p |-> SliceFirst5(out.val.p)])
           [] fn = "cancelOrder" -> Resolved(Undef)
           [] OTHER -> out

----------------------------------------------------------------------------
(* The network: the responses one fetch() can get *)

SmallVariants == 2
ManyVariants == 6

VariantList(k) == [i \in 1..k |-> Variant(4010 + i, 9 + i)]

NoResponse ==
    [ failed |-> FALSE, status |-> 0, parse |-> "none",
      code |-> Undef, error |-> NoError, result |-> Undef ]
NetworkFailure == [NoResponse EXCEPT !.failed = TRUE]
Envelope(status, code, error, result) ==
    [ failed |-> FALSE, status |-> status, parse |-> "object",
      code |-> code, error |-> error, result |-> result ]
OkResponse(result) == Envelope(200, Num(200), NoError, result)
NotFoundResponse == Envelope(404, Num(404), ErrorObj(Str("Not found")), Str("Not Found"))

Results ==
    { Undef, Str(""), Str("Bad request"), Product(71, VariantList(SmallVariants)),
      Arr(<<Obj("store")>>) }

EnvelopeResponses ==
    { Envelope(st, code, err, res) :
        st \in {200, 404},
        code \in {Num(200), Num(404), Str("200")},
        err \in {NoError, ErrorObj(Str("")), ErrorObj(Str("Not found"))},
        res \in Results }

BrokenResponses ==
    { NetworkFailure }
    \cup { [NoResponse EXCEPT !.status = st, !.parse = pa] :
             st \in {200, 500}, pa \in {"invalid", "null"} }

\* the responses the model explores for a request of client function fn for
\* product id, made by the exported function top
ResponsesFor(top, fn, id) ==
    CASE top = "getPopularProducts" ->
            { OkResponse(Product(id, VariantList(SmallVariants))),
              NotFoundResponse, NetworkFailure }
      [] top = "quickCreateProduct" /\ fn = "getProduct" ->
            { OkResponse(Product(id, VariantList(SmallVariants))),
              OkResponse(Product(id, VariantList(ManyVariants))),
              OkResponse(Undef), NotFoundResponse, NetworkFailure }
      [] top = "quickCreateProduct" /\ fn = "createSyncProduct" ->
            { OkResponse([Obj("syncProduct") EXCEPT !.n = 900]),
              OkResponse(Undef), NotFoundResponse, NetworkFailure }
      [] top = "quickCreateProduct" /\ fn = "createMockup" ->
            { OkResponse(Obj("mockups")), OkResponse(Obj("task")),
              NotFoundResponse, NetworkFailure }
      [] OTHER -> EnvelopeResponses \cup BrokenResponses

----------------------------------------------------------------------------
(* A call of an exported function of lib/printful, from its invocation to   *)
(* the settling of the promise it returns.                                  *)
(*   cur.pc     "idle" | "await" (requests in flight) | "done"              *)
(*   cur.out    the promise the function returned                           *)
(*   cur.calls  the client functions invoked by a composite function        *)
(*   cur.slots  getPopularProducts: the five promises given to Promise.all  *)
(*   cur.mem    quickCreateProduct: the values awaited so far               *)
(*   cur.late   some response arrived before that of an earlier request     *)
(*   net[i]     the i-th fetch(): its request, its response, and how the    *)
(*              printfulRequest that issued it settled                      *)

Idle ==
    [ fn |-> "", arg |-> EmptyObject, pc |-> "idle", out |-> Pending,
      calls |-> <<>>, slots |-> <<>>, mem |-> <<>>, late |-> FALSE ]

Fetch(fn, req) == [fn |-> fn, req |-> req, resp |-> NoResponse, out |-> Pending]

Called(fn, arg) == [fn |-> fn, arg |-> arg]
Invoke(fn, arg) == [Idle EXCEPT !.fn = fn, !.arg = arg, !.pc = "await"]
Finish(c, out) == [c EXCEPT !.pc = "done", !.out = out]

\* a single-request function, up to its await
StartSingle(v, key, storeEnv, fn, arg) ==
    LET s == printfulRequest_send(v, key, storeEnv, Endpoint(v, fn, arg),
                                  RequestOptions(v, fn, arg))
        c == [Invoke(fn, arg) EXCEPT
                !.calls = IF fn = "getProductPricing" THEN <<Called("getProduct", arg)>> ELSE <<>>]
    IN IF s.sent
       THEN [cur |-> c, net |-> <<Fetch(fn, s.req)>>]
       ELSE [cur |-> Finish(c, After(v, fn, Rejected(s.message))), net |-> <<>>]

\* getPopularProducts --------------------------------------------------------

\* productIds.slice(0, 5)
PopularIds == SliceFirst5(ObjectValues(POPULAR_PRODUCTS))

\* getProduct(id).catch(() => null)
CatchNull_Rethrow(out) == out

CatchNull(out) == IF out.st = "rejected" THEN Resolved(Null) ELSE out

\* Promise.all(promises): pending until all are fulfilled, then the values in
\* the order of the promises; rejected as soon as one is rejected
PromiseAll(slots) ==
    IF \E i \in 1..Len(slots) : slots[i].st = "rejected"
    THEN LET i == CHOOSE j \in 1..Len(slots) : slots[j].st = "rejected"
         IN [st |-> "rejected", val |-> slots[i].val]
    ELSE IF \E i \in 1..Len(slots) : slots[i].st = "pending" THEN Pending
    ELSE Resolved(Arr([i \in 1..Len(slots) |-> slots[i].val]))

\* products.filter(p => p !== null)
FilterNotNull(arr) == Arr(SelectSeq(arr.p, LAMBDA x : x # Null))

PopularOutcome(slots) ==
    LET all == PromiseAll(slots)
    IN IF all.st = "resolved" THEN Resolved(FilterNotNull(all.val)) ELSE all

StartPopular(v, key, storeEnv) ==
    LET sends == [i \in 1..Len(PopularIds) |->
                    printfulRequest_send(v, key, storeEnv,
                        Endpoint(v, "getProduct", [productId |-> Num(PopularIds[i])]),
                        GetOptions)]
        slots == [i \in 1..Len(PopularIds) |->
                    IF sends[i].sent THEN Pending
                    ELSE CatchNull(Rejected(sends[i].message))]
        issued == SelectSeq([i \in 1..Len(PopularIds) |-> Fetch("getProduct", sends[i].req)],
                            LAMBDA f : f.req # NoRequest)
        c == [Invoke("getPopularProducts", EmptyObject) EXCEPT
                !.calls = [i \in 1..Len(PopularIds) |->
                             Called("getProduct", [productId |-> Num(PopularIds[i])])],
                !.slots = slots]
        out == PopularOutcome(slots)
    IN [cur |-> IF out.st = "pending" THEN c ELSE Finish(c, out), net |-> issued]

StepPopular(c, i, out) ==
    LET slots == [c.slots EXCEPT ![i] = CatchNull(out)]
        c2 == [c EXCEPT !.slots = slots]
        all == PopularOutcome(slots)
    IN IF all.st = "pending" THEN c2 ELSE Finish(c2, all)

\* quickCreateProduct --------------------------------------------------------

\* const markup = params.retailMarkup || 2
Markup(arg) == Or(Field(arg, "retailMarkup"), Num(2))

\* baseVariants.map(v => ({variant_id: v.id, retail_price: v.price * markup, files}))
SyncVariants(baseVariants, markup) ==
    [i \in 1..Len(baseVariants) |->
        Variant(baseVariants[i].n, VariantPrice(baseVariants[i]).n * markup.n)]

QuickProductId(arg) == Lookup(POPULAR_PRODUCTS, Field(arg, "productType").s)

HasMockups(v) == v.t = "object" /\ v.s = "mockups"

DesignFiles(arg) == Arr(<<[Obj("file") EXCEPT !.p = <<Field(arg, "designUrl")>>]>>)

StartQuick(v, key, storeEnv, arg) ==
    LET getArg == [productId |-> Num(QuickProductId(arg))]
        s == printfulRequest_send(v, key, storeEnv, Endpoint(v, "getProduct", getArg),
                                  RequestOptions(v, "getProduct", getArg))
        c == [Invoke("quickCreateProduct", arg) EXCEPT
                !.calls = <<Called("getProduct", getArg)>>]
    IN IF s.sent
       THEN [cur |-> c, net |-> <<Fetch("getProduct", s.req)>>]
       ELSE [cur |-> Finish(c, Rejected(s.message)), net |-> <<>>]

\* the continuation after the awaited client function settles with `out`
quickCreateProduct_continue(v, key, storeEnv, c, n, out) ==
    LET step == Len(c.mem) + 1
        val == IF out.st = "resolved" THEN out.val ELSE Undef
        c2 == [c EXCEPT !.mem = Append(c.mem, val)]
        product == c2.mem[1]
        throwsOnVariants == Nullish(product) \/ ~HasVariants(product)
        baseVariants == SliceFirst5(product.p)
        syncArg == [ name |-> Field(c.arg, "name"),
                     thumbnail |-> Field(c.arg, "designUrl"),
                     variants |-> Arr(SyncVariants(baseVariants, Markup(c.arg))) ]
        mockArg == [ productId |-> Num(QuickProductId(c.arg)),
                     variantIds |-> Arr([i \in 1..Len(baseVariants) |-> Num(baseVariants[i].n)]),
                     files |-> DesignFiles(c.arg) ]
        next == IF step = 1 THEN "createSyncProduct" ELSE "createMockup"
        nextArg == IF step = 1 THEN syncArg ELSE mockArg
        s == printfulRequest_send(v, key, storeEnv, Endpoint(v, next, nextArg),
                                  RequestOptions(v, next, nextArg))
    IN IF step = 1 /\ throwsOnVariants
       THEN [cur |-> Finish(c2, Rejected(UNDEFINED_TYPE_ERROR)), net |-> n]
       ELSE IF step < 3
       THEN IF s.sent
            THEN [ cur |-> [c2 EXCEPT !.calls = Append(c.calls, Called(next, nextArg))],
                   net |-> Append(n, Fetch(next, s.req)) ]
            ELSE [ cur |-> Finish([c2 EXCEPT !.calls = Append(c.calls, Called(next, nextArg))],
                                  Rejected(s.message)),
                   net |-> n ]
       ELSE \* return {productId: syncProduct.id, mockupUrls: mockupTask.mockups.map(...)}
            IF Nullish(c2.mem[2]) \/ ~HasMockups(c2.mem[3])
            THEN [cur |-> Finish(c2, Rejected(UNDEFINED_TYPE_ERROR)), net |-> n]
            ELSE [ cur |-> Finish(c2, Resolved([Obj("created") EXCEPT !.n = c2.mem[2].n])),
                   net |-> n ]

\* (a chain that runs on after a step failed)
StepQuick_IgnoreFailure(v, key, storeEnv, c, n, out) ==
    quickCreateProduct_continue(v, key, storeEnv, c, n, out)

\* await: a rejection of the awaited client function rejects quickCreateProduct
StepQuick(v, key, storeEnv, c, n, out) ==
    IF out.st = "rejected"
    THEN [cur |-> Finish(c, out), net |-> n]
    ELSE quickCreateProduct_continue(v, key, storeEnv, c, n, out)

\* any exported function -------------------------------------------------------

Start(v, key, storeEnv, fn, arg) ==
    CASE fn = "getPopularProducts" -> StartPopular(v, key, storeEnv)
      [] fn = "quickCreateProduct" -> StartQuick(v, key, storeEnv, arg)
      [] OTHER -> StartSingle(v, key, storeEnv, fn, arg)

\* the i-th fetch() gets its response: the printfulRequest that issued it
\* settles, and the function that awaits it runs on
Step(v, key, storeEnv, c, n, i, resp) ==
    LET out == printfulRequest_settle(v, resp)
        n2 == [n EXCEPT ![i].resp = resp, ![i].out = out]
        c2 == [c EXCEPT !.late = c.late \/ \E j \in 1..(i - 1) : n[j].out.st = "pending"]
    IN CASE c.fn = "getPopularProducts" -> [cur |-> StepPopular(c2, i, out), net |-> n2]
         [] c.fn = "quickCreateProduct" -> StepQuick(v, key, storeEnv, c2, n2, out)
         [] OTHER -> [cur |-> Finish(c2, After(v, c.fn, out)), net |-> n2]

\* the product a request is about (its detail is what a good response holds)
ProductOf(c, i) ==
    CASE c.fn = "getPopularProducts" -> PopularIds[i]
      [] c.fn = "quickCreateProduct" -> QuickProductId(c.arg)
      [] OTHER -> 71

----------------------------------------------------------------------------
(* The arguments the callers pass *)

OrderParams == [recipient |-> Obj("recipient"), items |-> Arr(<<Obj("item")>>)]
MockupParams ==
    [ productId |-> Num(71), variantIds |-> Arr(<<Num(4011)>>),
      files |-> Arr(<<Obj("file")>>) ]

ArgsOf(v, fn) ==
    CASE fn = "getCatalog" ->
            IF v = "v2" THEN {EmptyObject, [limit |-> Num(5)]} ELSE {EmptyObject}
      [] fn \in {"getProduct", "getProductPricing"} -> {[productId |-> Num(71)]}
      [] fn = "getVariant" -> {[variantId |-> Num(4011)]}
      [] fn \in {"getShippingRates", "estimateCosts", "createOrder"} -> {OrderParams}
      [] fn = "createDraftOrder" ->
            { OrderParams,
              OrderParams @@ ("confirm" :> Bool(TRUE)),
              OrderParams @@ ("confirm" :> Str("yes")) }
      [] fn \in {"createMockupTask", "createMockup"} -> {MockupParams}
      [] fn = "getMockupResult" -> {[taskKey |-> Str("gt-1")]}
      [] fn \in {"getOrder", "cancelOrder"} -> {[orderId |-> Str("o1")]}
      [] fn = "listOrders" ->
            {EmptyObject, [status |-> Str("draft"), limit |-> Num(10)], [offset |-> Num(0)]}
      [] fn = "createSyncProduct" ->
            {[ name |-> Str("Tee"), thumbnail |-> Str("https://d/x.png"),
               variants |-> Arr(<<Variant(4011, 20)>>) ]}
      [] fn = "quickCreateProduct" ->
            { [ name |-> Str("Tee"), designUrl |-> Str("https://d/x.png"),
                productType |-> Str(k), retailMarkup |-> m ] :
                k \in {"tShirt", "mug"}, m \in {Undef, Num(0), Num(1), Num(3)} }
      [] OTHER -> {EmptyObject}

ApiKeys == {Undef, Str(""), Str("pk_live_1")}
StoreIds == {Undef, Str("777")}

----------------------------------------------------------------------------
(* A program that calls lib/printful directly, one call after the other *)

NoPrev == [fn |-> "", arg |-> EmptyObject, st |-> "none", reqs |-> <<>>]
NoRoute == [pc |-> "none"]
NoUi == [pc |-> "unmounted"]
NoDownload == [pc |-> "none"]

InitClient ==
    /\ apiKey \in ApiKeys
    /\ ver \in {"v1", "v2"}
    /\ storeIdEnv \in IF ver = "v2" THEN StoreIds ELSE {Undef}
    /\ cur = Idle
    /\ net = <<>>
    /\ prev = NoPrev
    /\ route = NoRoute
    /\ ui = NoUi
    /\ dl = NoDownload

ClientCall ==
    /\ cur.pc = "idle"
    /\ \E fn \in SingleFns(ver) \cup CompositeFns(ver) :
         \E arg \in ArgsOf(ver, fn) :
            LET s == Start(ver, apiKey, storeIdEnv, fn, arg)
            IN cur' = s.cur /\ net' = s.net
    /\ UNCHANGED <<apiKey, storeIdEnv, ver, prev, route, ui, dl>>

Respond ==
    /\ cur.pc = "await"
    /\ \E i \in 1..Len(net) :
         /\ net[i].out.st = "pending"
         /\ \E resp \in ResponsesFor(cur.fn, net[i].fn, ProductOf(cur, i)) :
              LET s == Step(ver, apiKey, storeIdEnv, cur, net, i, resp)
              IN cur' = s.cur /\ net' = s.net
    /\ UNCHANGED <<apiKey, storeIdEnv, ver, prev, route, ui, dl>>

ClientReturn ==
    /\ cur.pc = "done"
    /\ route = NoRoute
    /\ prev' = [ fn |-> cur.fn, arg |-> cur.arg, st |-> cur.out.st,
                 reqs |-> [i \in 1..Len(net) |-> net[i].req] ]
    /\ cur' = Idle
    /\ net' = <<>>
    /\ UNCHANGED <<apiKey, storeIdEnv, ver, route, ui, dl>>

NextClient == ClientCall \/ Respond \/ ClientReturn

SpecClient == InitClient /\ [][NextClient]_vars

----------------------------------------------------------------------------
(* The /api/printful route (it imports the store-ID version of lib/printful) *)
(*   route.pc      "idle" | "calling" (a client function is awaited) |       *)
(*                 "responded"                                               *)
(*   route.req     the request: method, the query parameters as             *)
(*                 searchParams.get returns them (null when absent), body   *)
(*   route.called  the client functions the handler has invoked             *)
(*   route.res     what the handler returned, or that it threw              *)

\* parseInt on the query strings the model sends
ParseInt(v) ==
    CASE v = Str("71") -> Num(71)
      [] v = Str("20") -> Num(20)
      [] v = Str("5") -> Num(5)
      [] OTHER -> NaN

\* NextResponse.json(body, {status}); status defaults to 200
JsonResponse(status, success, error, kind) ==
    [ kind |-> "response", status |-> status, success |-> success,
      error |-> error, doc |-> kind ]
Thrown(message) ==
    [ kind |-> "throw", status |-> 0, success |-> Undef,
      error |-> Str(message), doc |-> "" ]

\* errorResponse(message, status = 500)
errorResponse(message, status) == JsonResponse(status, Bool(FALSE), message, "error")

CallClient(fn, arg) == [kind |-> "call", fn |-> fn, arg |-> arg]
Reply(res) == [kind |-> "reply", res |-> res]

\* the client function GET's switch selects for an action that has one
GetClientFunction_Swapped(action) ==
    CASE action = "catalog" -> "getCatalog"
      [] action = "product" -> "getProductPricing"
      [] action = "popular" -> "getPopularProducts"
      [] action = "pricing" -> "getProduct"
      [] action = "store" -> "getStoreInfo"
      [] action = "mockup-status" -> "getMockupResult"
      [] OTHER -> ""

GetClientFunction(action) ==
    CASE action = "catalog" -> "getCatalog"
      [] action = "product" -> "getProduct"
      [] action = "popular" -> "getPopularProducts"
      [] action = "pricing" -> "getProductPricing"
      [] action = "store" -> "getStoreInfo"
      [] action = "mockup-status" -> "getMockupResult"
      [] OTHER -> ""

\* (a GET that does not test `id` before it calls the client)
GetHandler_NoIdCheck(req) ==
    LET action == JsToString(Or(req.action, Str("info")))
        fn == GetClientFunction(action)
    IN CASE action = "catalog" ->
              CallClient(fn, [limit |-> ParseInt(Or(req.limit, Str("20")))])
         [] action \in {"product", "pricing"} ->
              CallClient(fn, [productId |-> ParseInt(req.id)])
         [] action \in {"popular", "store"} -> CallClient(fn, EmptyObject)
         [] action = "mockup-status" ->
              IF ~Truthy(req.task_key)
              THEN Reply(errorResponse(Str("Task key required"), 400))
              ELSE CallClient(fn, [taskKey |-> req.task_key])
         [] OTHER -> Reply(JsonResponse(200, Bool(TRUE), Undef, "info"))

\* GET up to its await (or its return, when it awaits nothing)
GetHandler(req) ==
    LET action == JsToString(Or(req.action, Str("info")))
        fn == GetClientFunction(action)
    IN CASE action = "catalog" ->
              CallClient(fn, [limit |-> ParseInt(Or(req.limit, Str("20")))])
         [] action \in {"product", "pricing"} ->
              IF ~Truthy(req.id)
              THEN Reply(errorResponse(Str("Product ID required"), 400))
              ELSE CallClient(fn, [productId |-> ParseInt(req.id)])
         [] action \in {"popular", "store"} -> CallClient(fn, EmptyObject)
         [] action = "mockup-status" ->
              IF ~Truthy(req.task_key)
              THEN Reply(errorResponse(Str("Task key required"), 400))
              ELSE CallClient(fn, [taskKey |-> req.task_key])
         [] OTHER -> Reply(JsonResponse(200, Bool(TRUE), Undef, "info"))

\* the client function POST's switch selects for an action that has one
PostClientFunction(action) ==
    CASE action = "shipping" -> "getShippingRates"
      [] action = "estimate" -> "estimateCosts"
      [] action = "mockup" -> "createMockupTask"
      [] OTHER -> ""

\* const {a, b} = body: throws on null, gives undefined for what is missing
BodyField(body, k) == Field(body.fields, k)

\* POST up to its await (or its return, or its throw)
PostHandlerBody(req) ==
    LET action == JsToString(req.action)
        fn == PostClientFunction(action)
        body == req.body
    IN IF body.kind = "invalid" THEN Reply(Thrown(JSON_SYNTAX_ERROR))
       ELSE CASE action \in {"shipping", "estimate"} ->
                   IF body.kind = "null" THEN Reply(Thrown(NULL_TYPE_ERROR))
                   ELSE IF ~Truthy(BodyField(body, "recipient")) \/ ~Truthy(BodyField(body, "items"))
                   THEN Reply(errorResponse(Str("recipient and items are required"), 400))
                   ELSE CallClient(fn, [ recipient |-> BodyField(body, "recipient"),
                                         items |-> BodyField(body, "items") ])
              [] action = "mockup" ->
                   IF body.kind = "null" THEN Reply(Thrown(NULL_TYPE_ERROR))
                   ELSE IF \/ ~Truthy(BodyField(body, "productId"))
                           \/ ~Truthy(BodyField(body, "variantIds"))
                           \/ ~Truthy(BodyField(body, "files"))
                   THEN Reply(errorResponse(
                            Str("productId, variantIds, and files are required"), 400))
                   ELSE CallClient(fn, [ productId |-> BodyField(body, "productId"),
                                         variantIds |-> BodyField(body, "variantIds"),
                                         files |-> BodyField(body, "files") ])
              [] OTHER ->
                   Reply(errorResponse(
                       Str("Unknown action: " \o action \o ". Use: shipping, estimate, mockup"),
                       400))

PostHandler(req) ==
    IF ~Truthy(req.action)
    THEN Reply(errorResponse(
             Str("Action parameter required. Use: shipping, estimate, mockup"), 400))
    ELSE PostHandlerBody(req)

\* what the handler does with the settled client function: the success
\* response (reading .length of a list throws when there is no list), or the
\* rejection thrown at the await
AfterAwait(fn, out) ==
    IF out.st = "rejected" THEN Thrown(out.val.s)
    ELSE IF fn \in {"getCatalog", "getShippingRates"} /\ Nullish(out.val)
    THEN Thrown(IF out.val = Null THEN NULL_TYPE_ERROR ELSE UNDEFINED_TYPE_ERROR)
    ELSE JsonResponse(200, Bool(TRUE), Undef, fn)

\* try { ... } catch (error) { return errorResponse((error as Error).message) }
TryCatch_Rethrow(res) == res

TryCatch(res) ==
    IF res.kind = "throw" THEN errorResponse(res.error, 500) ELSE res

Handler(req) == IF req.method = "GET" THEN GetHandler(req) ELSE PostHandler(req)

NoBody == [kind |-> "none", fields |-> EmptyObject]

GetRequests ==
    { [ method |-> "GET", action |-> a, id |-> id, limit |-> li, task_key |-> tk,
        body |-> NoBody ] :
        a \in { Null, Str(""), Str("info"), Str("catalog"), Str("product"), Str("popular"),
                Str("pricing"), Str("store"), Str("mockup-status"), Str("shipping"),
                Str("bogus") },
        id \in {Null, Str(""), Str("71"), Str("abc")},
        li \in {Null, Str("5")},
        tk \in {Null, Str("gt-1")} }

\* a parameter the selected action does not read is left out
Relevant(req) ==
    LET a == req.action.s IN
    /\ req.id # Null => a \in {"product", "pricing"}
    /\ req.limit # Null => a = "catalog"
    /\ req.task_key # Null => a = "mockup-status"

Bodies ==
    { [kind |-> "invalid", fields |-> EmptyObject],
      [kind |-> "null", fields |-> EmptyObject] }
    \cup { [kind |-> "object",
            fields |-> JsonStringify([recipient |-> r, items |-> it])] :
             r \in {Undef, Obj("recipient")},
             it \in {Undef, Arr(<<>>), Arr(<<Obj("item")>>)} }
    \cup { [kind |-> "object",
            fields |-> JsonStringify([productId |-> pid, variantIds |-> vs, files |-> fs])] :
             pid \in {Undef, Num(0), Num(71)},
             vs \in {Undef, Arr(<<Num(4011)>>)},
             fs \in {Undef, Arr(<<Obj("file")>>)} }

PostRequests ==
    { [ method |-> "POST", action |-> a, id |-> Null, limit |-> Null, task_key |-> Null,
        body |-> b ] :
        a \in { Null, Str(""), Str("shipping"), Str("estimate"), Str("mockup"),
                Str("catalog"), Str("bogus") },
        b \in Bodies }

IdleRoute ==
    [ pc |-> "idle", req |-> [method |-> "", action |-> Null, id |-> Null, limit |-> Null,
                              task_key |-> Null, body |-> NoBody],
      called |-> <<>>, res |-> Thrown("") ]

InitRoute ==
    /\ apiKey \in ApiKeys
    /\ ver = "v2"
    /\ storeIdEnv \in StoreIds
    /\ cur = Idle
    /\ net = <<>>
    /\ prev = NoPrev
    /\ route = IdleRoute
    /\ ui = NoUi
    /\ dl = NoDownload

\* a request arrives and the handler runs to its await or to its return
Request(req) ==
    /\ route.pc = "idle"
    /\ LET h == Handler(req)
       IN IF h.kind = "call"
          THEN LET s == Start(ver, apiKey, storeIdEnv, h.fn, h.arg)
               IN /\ route' = [ route EXCEPT !.pc = "calling", !.req = req,
                                             !.called = <<Called(h.fn, h.arg)>> ]
                  /\ cur' = s.cur
                  /\ net' = s.net
          ELSE /\ route' = [ route EXCEPT !.pc = "responded", !.req = req,
                                          !.res = TryCatch(h.res) ]
               /\ UNCHANGED <<cur, net>>
    /\ UNCHANGED <<apiKey, storeIdEnv, ver, prev, ui, dl>>

RouteGET ==
    \E req \in GetRequests : Relevant(req) /\ Request(req)

RoutePOST ==
    \E req \in PostRequests : Request(req)

\* the awaited client function has settled: the handler returns
RouteReturn ==
    /\ route.pc = "calling"
    /\ cur.pc = "done"
    /\ route' = [ route EXCEPT !.pc = "responded",
                               !.res = TryCatch(AfterAwait(cur.fn, cur.out)) ]
    /\ UNCHANGED <<apiKey, storeIdEnv, ver, cur, net, prev, ui, dl>>

RouteNext ==
    /\ route.pc = "responded"
    /\ route' = IdleRoute
    /\ cur' = Idle
    /\ net' = <<>>
    /\ UNCHANGED <<apiKey, storeIdEnv, ver, prev, ui, dl>>

NextRoute == RouteGET \/ RoutePOST \/ Respond \/ RouteReturn \/ RouteNext

SpecRoute == InitRoute /\ [][NextRoute]_vars

----------------------------------------------------------------------------
(* The PrintfulBrowser component *)
(*   ui.pc   "unmounted" (constructed, the mount effect has not run) |       *)
(*           "ready" (no handler is awaiting) |                              *)
(*           "catalog" | "product" | "shipping" (the handler that awaits     *)
(*           its fetch)                                                      *)
(*   ui.productId   the argument of the loadProduct call that awaits         *)
(*   the other fields are the component's useState cells                     *)

InitialUi ==
    [ pc |-> "unmounted", productId |-> 0, products |-> <<>>, selectedProduct |-> Null,
      selectedVariant |-> Null, shippingRates |-> Arr(<<>>), loading |-> TRUE,
      error |-> Null, view |-> "catalog" ]

\* what the component returns: the if-chain of its render, first match wins;
\* "crash" is a render that throws (variants.map or shippingRates.map on a
\* value that has no such list), "null" the final return null
Render_ViewsFirst(u) ==
    IF u.view = "catalog" THEN "catalog"
    ELSE IF u.loading THEN "loading"
    ELSE IF Truthy(u.error) THEN "error"
    ELSE IF u.view = "product" /\ Truthy(u.selectedProduct)
    THEN IF HasVariants(u.selectedProduct) THEN "product" ELSE "crash"
    ELSE IF u.view = "estimate" /\ Truthy(u.selectedProduct) /\ Truthy(u.selectedVariant)
    THEN IF u.shippingRates.t = "array" THEN "estimate" ELSE "crash"
    ELSE "null"

Render(u) ==
    IF u.loading THEN "loading"
    ELSE IF Truthy(u.error) THEN "error"
    ELSE IF u.view = "catalog" THEN "catalog"
    ELSE IF u.view = "product" /\ Truthy(u.selectedProduct)
    THEN IF HasVariants(u.selectedProduct) THEN "product" ELSE "crash"
    ELSE IF u.view = "estimate" /\ Truthy(u.selectedProduct) /\ Truthy(u.selectedVariant)
    THEN IF u.shippingRates.t = "array" THEN "estimate" ELSE "crash"
    ELSE "null"

\* what /api/printful answers to the component's fetch:
\*   failed  fetch() rejects;  parse  what res.json() yields
\*   success, error, products, product, rates   the fields of the body
ApiReply(success, error, products, product, rates) ==
    [ failed |-> FALSE, parse |-> "object", success |-> success, error |-> error,
      products |-> products, product |-> product, rates |-> rates ]
ApiFailure == [ApiReply(Undef, Undef, Undef, Undef, Undef) EXCEPT !.failed = TRUE]
ApiGarbage == [ApiReply(Undef, Undef, Undef, Undef, Undef) EXCEPT !.parse = "invalid"]

FAILED_TO_FETCH == "Failed to fetch"

\* setLoading(true); setError(null); then the fetch is awaited
BeginLoad(u, handler) == [u EXCEPT !.loading = TRUE, !.error = Null, !.pc = handler]

\* catch (err) { setError(err.message) } finally { setLoading(false) }
Caught(u, message) ==
    [u EXCEPT !.error = Str(message), !.loading = FALSE, !.pc = "ready", !.productId = 0]
Completed(u) == [u EXCEPT !.loading = FALSE, !.pc = "ready", !.productId = 0]

\* the try block of a handler after its fetch settled with a body whose
\* success is not truthy, or without a body: the message it throws
FailureMessage(reply, fallback) ==
    IF reply.failed THEN FAILED_TO_FETCH
    ELSE IF reply.parse = "invalid" THEN JSON_SYNTAX_ERROR
    ELSE JsToString(Or(reply.error, Str(fallback)))

\* data.products.map(p => p.product)
ProductSummaries(products) ==
    [i \in 1..Len(products.p) |-> [Obj("summary") EXCEPT !.n = products.p[i].n]]

loadCatalog_settle(u, reply) ==
    IF reply.failed \/ reply.parse = "invalid" \/ ~Truthy(reply.success)
    THEN Caught(u, FailureMessage(reply, "Failed to load catalog"))
    ELSE IF reply.products.t # "array"
    THEN Caught(u, UNDEFINED_TYPE_ERROR)
    ELSE Completed([u EXCEPT !.products = ProductSummaries(reply.products)])

loadProduct_settle(u, reply) ==
    IF reply.failed \/ reply.parse = "invalid" \/ ~Truthy(reply.success)
    THEN Caught(u, FailureMessage(reply, "Failed to load product"))
    ELSE Completed([u EXCEPT !.selectedProduct = reply.product,
                             !.selectedVariant = Null,
                             !.view = "product"])

calculateShipping_settle(u, reply) ==
    IF reply.failed \/ reply.parse = "invalid" \/ ~Truthy(reply.success)
    THEN Caught(u, FailureMessage(reply, "Failed to calculate shipping"))
    ELSE Completed([u EXCEPT !.shippingRates = reply.rates, !.view = "estimate"])

goBack(u) ==
    IF u.view = "estimate"
    THEN [u EXCEPT !.view = "product", !.shippingRates = Arr(<<>>)]
    ELSE IF u.view = "product"
    THEN [u EXCEPT !.view = "catalog", !.selectedProduct = Null, !.selectedVariant = Null]
    ELSE u

CatalogReplies ==
    { ApiFailure, ApiGarbage,
      ApiReply(Bool(FALSE), Str("PRINTFUL_API_KEY not configured"), Undef, Undef, Undef),
      ApiReply(Bool(FALSE), Undef, Undef, Undef, Undef),
      ApiReply(Bool(TRUE), Undef, Undef, Undef, Undef),
      ApiReply(Bool(TRUE), Undef, Arr(<<>>), Undef, Undef),
      ApiReply(Bool(TRUE), Undef,
               Arr(<<Product(71, VariantList(SmallVariants)),
                     Product(19, VariantList(SmallVariants))>>), Undef, Undef) }

ProductReplies(id) ==
    { ApiFailure,
      ApiReply(Bool(FALSE), Str("Not found"), Undef, Undef, Undef),
      ApiReply(Bool(TRUE), Undef, Undef, Undef, Undef),
      ApiReply(Bool(TRUE), Undef, Undef, Obj("detail"), Undef),
      ApiReply(Bool(TRUE), Undef, Undef, Product(id, VariantList(SmallVariants)), Undef) }

ShippingReplies ==
    { ApiFailure,
      ApiReply(Bool(FALSE), Str("recipient and items are required"), Undef, Undef, Undef),
      ApiReply(Bool(TRUE), Undef, Undef, Undef, Undef),
      ApiReply(Bool(TRUE), Undef, Undef, Undef, Arr(<<>>)),
      ApiReply(Bool(TRUE), Undef, Undef, Undef, Arr(<<Obj("rate")>>)) }

InitBrowser ==
    /\ apiKey = Undef
    /\ storeIdEnv = Undef
    /\ ver = "v2"
    /\ cur = Idle
    /\ net = <<>>
    /\ prev = NoPrev
    /\ route = NoRoute
    /\ ui = InitialUi
    /\ dl = NoDownload

others == <<apiKey, storeIdEnv, ver, cur, net, prev, route, dl>>

\* useEffect(() => { loadCatalog() }, [])
Mount ==
    /\ ui.pc = "unmounted"
    /\ ui' = BeginLoad(ui, "catalog")
    /\ UNCHANGED others

\* the Refresh Catalog button of the catalog view
RefreshCatalog ==
    /\ ui.pc = "ready"
    /\ Render(ui) = "catalog"
    /\ ui' = BeginLoad(ui, "catalog")
    /\ UNCHANGED others

\* the Retry button of the error screen: setError(null); loadCatalog()
Retry ==
    /\ ui.pc = "ready"
    /\ Render(ui) = "error"
    /\ ui' = BeginLoad([ui EXCEPT !.error = Null], "catalog")
    /\ UNCHANGED others

LoadCatalogSettles ==
    /\ ui.pc = "catalog"
    /\ \E reply \in CatalogReplies : ui' = loadCatalog_settle(ui, reply)
    /\ UNCHANGED others

\* a click on a product card of the catalog view
ClickProduct ==
    /\ ui.pc = "ready"
    /\ Render(ui) = "catalog"
    /\ \E i \in 1..Len(ui.products) :
         ui' = [BeginLoad(ui, "product") EXCEPT !.productId = ui.products[i].n]
    /\ UNCHANGED others

LoadProductSettles ==
    /\ ui.pc = "product"
    /\ \E reply \in ProductReplies(ui.productId) : ui' = loadProduct_settle(ui, reply)
    /\ UNCHANGED others

\* the variant <select> of the product view: the chosen variant, or null
SelectVariant ==
    /\ ui.pc = "ready"
    /\ Render(ui) = "product"
    /\ \E v \in {Null} \cup {ui.selectedProduct.p[i] : i \in 1..Len(ui.selectedProduct.p)} :
         ui' = [ui EXCEPT !.selectedVariant = v]
    /\ UNCHANGED others

\* the Calculate Shipping button (disabled without a variant)
CalculateShipping ==
    /\ ui.pc = "ready"
    /\ Render(ui) = "product"
    /\ Truthy(ui.selectedVariant)
    /\ ui' = BeginLoad(ui, "shipping")
    /\ UNCHANGED others

CalculateShippingSettles ==
    /\ ui.pc = "shipping"
    /\ \E reply \in ShippingReplies : ui' = calculateShipping_settle(ui, reply)
    /\ UNCHANGED others

\* the Back buttons of the product and estimate views
GoBack ==
    /\ ui.pc = "ready"
    /\ Render(ui) \in {"product", "estimate"}
    /\ ui' = goBack(ui)
    /\ UNCHANGED others

NextBrowser ==
    \/ Mount \/ RefreshCatalog \/ Retry \/ LoadCatalogSettles
    \/ ClickProduct \/ LoadProductSettles
    \/ SelectVariant \/ CalculateShipping \/ CalculateShippingSettles
    \/ GoBack

SpecBrowser == InitBrowser /\ [][NextBrowser]_vars

----------------------------------------------------------------------------
(* GET /api/marketplace/download/[slug]                                     *)
(*                                                                          *)
(* A path is a record [abs, segs]: whether it starts at the root, and its   *)
(* segments; the empty relative path is the empty string.                   *)

Path(abs, segs) == [abs |-> abs, segs |-> segs]
EmptyPath == Path(FALSE, <<>>)

RECURSIVE NormalizeSegments(_, _, _)
NormalizeSegments(segs, acc, abs) ==
    IF segs = <<>> THEN acc
    ELSE LET h == Head(segs)
             rest == Tail(segs)
         IN  CASE h = "." -> NormalizeSegments(rest, acc, abs)
               [] h = ".." ->
                    IF acc # <<>> /\ acc[Len(acc)] # ".."
                    THEN NormalizeSegments(rest, SubSeq(acc, 1, Len(acc) - 1), abs)
                    ELSE IF abs THEN NormalizeSegments(rest, acc, abs)
                    ELSE NormalizeSegments(rest, Append(acc, ".."), abs)
               [] OTHER -> NormalizeSegments(rest, Append(acc, h), abs)

\* path.normalize: "." and "x/.." are resolved, a leading ".." of a relative
\* path stays, and a relative path that resolves to nothing is "."
normalize(p) ==
    LET segs == NormalizeSegments(p.segs, <<>>, p.abs)
    IN  Path(p.abs, IF segs = <<>> /\ ~p.abs THEN <<".">> ELSE segs)

\* String.prototype.includes('..') on one segment: the file names in use
includesDotDot(p) == \E i \in 1..Len(p.segs) : p.segs[i] \in {"..", "notes..txt"}

isAbsolute(p) == p.abs

\* path.join(a, 'storage', b): the segments in a row, normalized
join(a, name, b) == normalize(Path(a.abs, a.segs \o <<name>> \o b.segs))

basename(p) == IF p.segs = <<>> THEN "" ELSE p.segs[Len(p.segs)]

\* path.extname(fileName).toLowerCase() of the file names in use
extnameLower(fileName) ==
    CASE fileName = "guide.pdf" -> ".pdf"
      [] fileName = "COVER.PNG" -> ".png"
      [] fileName = "data.bin" -> ".bin"
      [] fileName = "notes..txt" -> ".txt"
      [] OTHER -> ""

contentTypeMap ==
    [ e \in {".pdf", ".epub", ".zip", ".jpg", ".jpeg", ".png", ".txt", ".md"} |->
        CASE e = ".pdf" -> "application/pdf"
          [] e = ".epub" -> "application/epub+zip"
          [] e = ".zip" -> "application/zip"
          [] e \in {".jpg", ".jpeg"} -> "image/jpeg"
          [] e = ".png" -> "image/png"
          [] e = ".txt" -> "text/plain"
          [] e = ".md" -> "text/markdown" ]

MAX_FILE_SIZE == 50 * 1024 * 1024

\* new NextResponse(body, {status, headers}); file names the file whose
\* contents are the body
TextResponse(text, status) ==
    [status |-> status, text |-> text, file |-> EmptyPath, contentType |-> "text/plain"]
FileResponse(fileAbsPath) ==
    LET fileExt == extnameLower(basename(fileAbsPath)) IN
    [status |-> 200, text |-> "", file |-> fileAbsPath,
     contentType |-> IF fileExt \in DOMAIN contentTypeMap THEN contentTypeMap[fileExt]
                     ELSE "application/octet-stream"]

\* the outer catch: whatever is thrown inside the try, notFound()'s error
\* included, is answered with status 500
OuterCatch == TextResponse("Internal server error", 500)
\* the inner catch around fs.stat and fs.readFile
InnerCatch == TextResponse("File not found", 404)

\* an awaited call settles: it resolves with val or it rejects
Resolves(val) == [rejected |-> FALSE, val |-> val]
Rejects == [rejected |-> TRUE]

\* rows of the products table, as select('id, title, file_path') gives them
Row(id, file_path) == [t |-> "row", id |-> id, title |-> "Title", file_path |-> file_path]

\* user?.id ?? null
UserId(user) == IF user = Null THEN Null ELSE Str(user.id)

\* pc: the await the handler is at; calls: the calls it has made, in order;
\* passed: the checks it has passed; hasAccess: what userHasProductAccess
\* gave ("" before it settles); size: stats.size (-1 before fs.stat settles)
IdleDownload ==
    [ pc |-> "idle", slug |-> "", user |-> Null, product |-> Null,
      asked |-> <<>>, hasAccess |-> "", file |-> EmptyPath, size |-> -1,
      calls |-> <<>>, passed |-> <<>>, res |-> TextResponse("", 0) ]

Calls(d, name) == [d EXCEPT !.calls = Append(@, name)]
Passes(d, check) == [d EXCEPT !.passed = Append(@, check)]
Returns(d, res) == [d EXCEPT !.pc = "done", !.res = res]
\* return notFound(): the call throws inside the outer try
notFound(d) == Returns(Calls(d, "notFound"), OuterCatch)

\* lines 15-16: const { slug } = await params; await getUser()
GET_start(slug) == Calls([IdleDownload EXCEPT !.pc = "getUser", !.slug = slug], "getUser")

\* lines 16-23: getUser settles; createServerClient and the products query
GET_afterGetUser(d, o) ==
    IF o.rejected THEN Returns(d, OuterCatch)
    ELSE Calls([d EXCEPT !.pc = "lookup", !.user = o.val], "products.select")

\* lines 25-35: the query settles; the two not-found checks; the access call
GET_afterLookup(d, o) ==
    IF o.rejected THEN Returns(d, OuterCatch)
    ELSE LET data == o.val IN
         IF data = Null \/ data.t # "row" \/ "file_path" \notin DOMAIN data
         THEN notFound(d)
         ELSE IF data.file_path = Null \/ data.file_path = EmptyPath
         THEN notFound(Passes([d EXCEPT !.product = data], "product"))
         ELSE Calls([Passes(Passes(d, "product"), "file_path") EXCEPT
                        !.pc = "access", !.product = data,
                        !.asked = <<UserId(d.user), data.id>>],
                    "userHasProductAccess")

\* lines 41-52: the path is validated and fs.stat is called
GET_validatePath(d) ==
    LET normalizedPath == normalize(d.product.file_path) IN
    IF includesDotDot(normalizedPath) \/ isAbsolute(normalizedPath)
    THEN Returns(d, TextResponse("Invalid file path", 400))
    ELSE Calls([Passes(d, "path") EXCEPT
                   !.pc = "stat", !.file = join(Path(TRUE, <<"app">>), "storage", normalizedPath)],
               "fs.stat")

\* lines 35-39: userHasProductAccess settles
GET_afterAccess_PathFirst(d, o) ==
    IF o.rejected THEN Returns(d, OuterCatch)
    ELSE LET v == GET_validatePath(Passes([d EXCEPT !.hasAccess = ToString(o.val)], "access"))
         IN  IF v.pc = "done" \/ o.val THEN v
             ELSE Returns([d EXCEPT !.hasAccess = ToString(o.val)],
                          TextResponse("Forbidden", 403))

GET_afterAccess(d, o) ==
    IF o.rejected THEN Returns(d, OuterCatch)
    ELSE LET e == [d EXCEPT !.hasAccess = ToString(o.val)] IN
         IF ~o.val THEN Returns(e, TextResponse("Forbidden", 403))
         ELSE GET_validatePath(Passes(e, "access"))

\* lines 52-60: fs.stat settles; the size check; fs.readFile is called
GET_afterStat(d, o) ==
    IF o.rejected THEN Returns(d, InnerCatch)
    ELSE LET e == [d EXCEPT !.size = o.val] IN
         IF o.val > MAX_FILE_SIZE THEN Returns(e, TextResponse("File too large", 413))
         ELSE Calls([Passes(e, "size") EXCEPT !.pc = "read"], "fs.readFile")

\* lines 60-89: fs.readFile settles; the response with the file's contents
GET_afterRead(d, o) ==
    IF o.rejected THEN Returns(d, InnerCatch)
    ELSE Returns(Passes(d, "read"), FileResponse(d.file))

\* what the handler's collaborators can give
FilePaths ==
    { Null, EmptyPath,
      Path(FALSE, <<"books", "guide.pdf">>),
      Path(FALSE, <<"COVER.PNG">>),
      Path(FALSE, <<".", "books", "..", "data.bin">>),
      Path(FALSE, <<"books", "..">>),
      Path(FALSE, <<"notes..txt">>),
      Path(FALSE, <<"..", "secret", "data.bin">>),
      Path(FALSE, <<"books", "..", "..", "data.bin">>),
      Path(TRUE, <<"etc", "passwd">>) }
GetUserResults == {Rejects, Resolves(Null), Resolves([t |-> "user", id |-> "u1"])}
LookupResults ==
    {Rejects, Resolves(Null), Resolves(Str("ebook")), Resolves([t |-> "row", id |-> "p1", title |-> "Title"])}
        \cup {Resolves(Row("p1", f)) : f \in FilePaths}
AccessResults == {Rejects, Resolves(TRUE), Resolves(FALSE)}
StatResults ==
    {Rejects} \cup {Resolves(n) : n \in {0, 4096, MAX_FILE_SIZE, MAX_FILE_SIZE + 1}}
ReadResults == {Rejects, Resolves(Obj("fileData"))}

InitDownload ==
    /\ apiKey = Undef
    /\ storeIdEnv = Undef
    /\ ver = "v2"
    /\ cur = Idle
    /\ net = <<>>
    /\ prev = NoPrev
    /\ route = NoRoute
    /\ ui = NoUi
    /\ dl = IdleDownload

rest == <<apiKey, storeIdEnv, ver, cur, net, prev, route, ui>>

DownloadGET ==
    /\ dl.pc = "idle"
    /\ \E slug \in {"ebook-1", "missing"} : dl' = GET_start(slug)
    /\ UNCHANGED rest

GetUserSettles ==
    /\ dl.pc = "getUser"
    /\ \E o \in GetUserResults : dl' = GET_afterGetUser(dl, o)
    /\ UNCHANGED rest

LookupSettles ==
    /\ dl.pc = "lookup"
    /\ \E o \in LookupResults : dl' = GET_afterLookup(dl, o)
    /\ UNCHANGED rest

AccessSettles ==
    /\ dl.pc = "access"
    /\ \E o \in AccessResults : dl' = GET_afterAccess(dl, o)
    /\ UNCHANGED rest

StatSettles ==
    /\ dl.pc = "stat"
    /\ \E o \in StatResults : dl' = GET_afterStat(dl, o)
    /\ UNCHANGED rest

ReadSettles ==
    /\ dl.pc = "read"
    /\ \E o \in ReadResults : dl' = GET_afterRead(dl, o)
    /\ UNCHANGED rest

DownloadReturn ==
    /\ dl.pc = "done"
    /\ dl' = IdleDownload
    /\ UNCHANGED rest

NextDownload ==
    \/ DownloadGET
    \/ GetUserSettles
    \/ LookupSettles
    \/ AccessSettles
    \/ StatSettles
    \/ ReadSettles
    \/ DownloadReturn

SpecDownload == InitDownload /\ [][NextDownload]_vars

----------------------------------------------------------------------------
(* Properties of lib/printful, checked under SpecClient *)

Configured == Truthy(apiKey)
Settled(i) == net[i].out.st # "pending"
IsEnvelope(resp) == ~resp.failed /\ resp.parse = "object"

\* the message printfulRequest (store-ID version) gives to a refused envelope:
\* error.message if there is one, else result, else the generic text
RefusalMessage(resp) ==
    IF Truthy(ErrorMessageOf(resp)) THEN JsToString(ErrorMessageOf(resp))
    ELSE IF Truthy(resp.result) THEN JsToString(resp.result)
    ELSE "Printful API error: " \o JsToString(resp.code)

IsSingle == cur.fn \in SingleFns(ver)

AuthorizedRequest(req) ==
    /\ "Authorization" \in DOMAIN req.headers
    /\ req.headers["Authorization"] = "Bearer " \o apiKey.s
    /\ apiKey.t = "string" /\ apiKey.s # ""
    /\ ver = "v2" => "X-PF-Store-Id" \in DOMAIN req.headers

\* C4 (as stated): every request carries the Authorization header (and the
\* store id in the store-ID version); without PRINTFUL_API_KEY every client
\* function rejects with 'PRINTFUL_API_KEY not configured' and nothing is sent.
C4_AsStated ==
    /\ \A i \in 1..Len(net) : AuthorizedRequest(net[i].req)
    /\ (~Configured /\ cur.pc # "idle") =>
          (net = <<>> /\ cur.pc = "done" /\ cur.out = Rejected(KEY_ERROR))

\* C4 (amended): every request carries the Authorization header (and the
\* store id in the store-ID version); without PRINTFUL_API_KEY no request is
\* sent, getPopularProducts resolves with the empty list and every other
\* client function rejects with 'PRINTFUL_API_KEY not configured'.
C4_AuthOrNothing ==
    /\ \A i \in 1..Len(net) : AuthorizedRequest(net[i].req)
    /\ (~Configured /\ cur.pc # "idle") =>
          /\ net = <<>>
          /\ cur.pc = "done"
          /\ cur.fn = "getPopularProducts" => cur.out = Resolved(Arr(<<>>))
          /\ cur.fn # "getPopularProducts" => cur.out = Rejected(KEY_ERROR)

\* a client function called without a key has rejected
C4_Witness ==
    /\ ~Configured
    /\ cur.pc = "done"
    /\ cur.fn = "createDraftOrder"
    /\ cur.out = Rejected(KEY_ERROR)

\* C5 (as stated): each call of a single-endpoint function issues exactly
\* one HTTP request.
C5_AsStated ==
    (IsSingle /\ cur.pc = "done") => Len(net) = 1

\* C5 (amended): no retry and no caching. A call of a single-endpoint
\* function issues exactly one HTTP request when PRINTFUL_API_KEY is
\* configured and none when it is not; a failed request is reported to the
\* caller as it failed and is not sent again; a call identical to the previous
\* one issues its own request.
C5_OneRequestPerCall ==
    /\ (IsSingle /\ cur.pc # "idle") => Len(net) = (IF Configured THEN 1 ELSE 0)
    /\ (IsSingle /\ cur.pc = "done" /\ Len(net) = 1 /\ net[1].out.st = "rejected") =>
          cur.out = net[1].out
    /\ (IsSingle /\ cur.pc = "await") => (Len(net) = 1 /\ ~Settled(1))
    /\ prev.fn \in SingleFns(ver) => Len(prev.reqs) = (IF Configured THEN 1 ELSE 0)

\* the second of two identical calls, the first of which succeeded, has its
\* own request in flight
C5_Witness ==
    /\ IsSingle
    /\ prev.fn = cur.fn /\ prev.arg = cur.arg /\ prev.st = "resolved"
    /\ cur.pc = "await"
    /\ Len(net) = 1 /\ net[1].req = prev.reqs[1]

\* the details of the getProduct calls that succeeded, in the order of the ids
SucceededDetails ==
    LET ok == SelectSeq(net, LAMBDA f : f.out.st = "resolved")
    IN [i \in 1..Len(ok) |-> ok[i].out.val]

FirstFiveIds == <<71, 380, 19, 1, 195>>

\* C6: getPopularProducts calls getProduct for 71, 380, 19, 1, 195, all at
\* once; it never rejects; it returns the details of the calls that
\* succeeded, in the order of the ids, whatever the order of the responses.
C6_PopularSurvivesFailures ==
    cur.fn = "getPopularProducts" =>
        /\ cur.calls = [i \in 1..5 |-> Called("getProduct", [productId |-> Num(FirstFiveIds[i])])]
        /\ Configured =>
             /\ Len(net) = 5
             /\ \A i \in 1..5 :
                  net[i].req.url = PRINTFUL_API_URL \o "/products/" \o ToString(FirstFiveIds[i])
        /\ cur.out.st # "rejected"
        /\ cur.pc = "await" <=> \E i \in 1..Len(net) : ~Settled(i)
        /\ cur.pc = "done" =>
             /\ cur.out.st = "resolved"
             /\ cur.out.val = Arr(SucceededDetails)
             /\ \A i \in 1..Len(cur.out.val.p) : cur.out.val.p[i].t = "object"

\* responses arrived out of order, the second and the fourth call failed, and
\* the three others are returned
C6_Witness ==
    /\ cur.fn = "getPopularProducts"
    /\ cur.pc = "done"
    /\ cur.late
    /\ Len(net) = 5
    /\ net[2].out.st = "rejected" /\ net[4].out.st = "rejected"
    /\ Len(cur.out.val.p) = 3
    /\ [i \in 1..3 |-> cur.out.val.p[i].n] = <<71, 19, 195>>

QuickOrder == <<"getProduct", "createSyncProduct", "createMockup">>

\* C7: quickCreateProduct calls getProduct, createSyncProduct, createMockup in
\* this order, each only after the one before succeeded; it resolves only if
\* all three succeeded; a failure rejects it, nothing is called afterwards and
\* nothing is undone.
C7_QuickIsAChain ==
    cur.fn = "quickCreateProduct" =>
        /\ Len(cur.calls) \in 1..3
        /\ \A k \in 1..Len(cur.calls) : cur.calls[k].fn = QuickOrder[k]
        /\ Len(net) <= Len(cur.calls)
        /\ \A k \in 2..Len(cur.calls) : Len(net) >= k - 1 /\ net[k - 1].out.st = "resolved"
        /\ cur.out.st = "resolved" =>
             (Len(net) = 3 /\ \A k \in 1..3 : net[k].out.st = "resolved")
        /\ \A k \in 1..Len(net) :
             net[k].out.st = "rejected" =>
                (cur.pc = "done" /\ cur.out = net[k].out /\ Len(net) = k /\ Len(cur.calls) = k)
        /\ \A k \in 1..Len(net) : net[k].req.method \in {"GET", "POST"}

\* createSyncProduct failed after getProduct succeeded: rejected, no mockup
C7_Witness ==
    /\ cur.fn = "quickCreateProduct"
    /\ cur.pc = "done"
    /\ Len(net) = 2
    /\ net[1].out.st = "resolved"
    /\ net[2].out.st = "rejected"
    /\ cur.out.st = "rejected"

\* C8: every sync variant quickCreateProduct creates has retail_price = base
\* price * retailMarkup when retailMarkup is supplied, base price * 2 when it
\* is omitted.
C8_RetailPrice ==
    (cur.fn = "quickCreateProduct" /\ Len(net) >= 2) =>
        LET m == Field(cur.arg, "retailMarkup")
            factor == IF m = Undef THEN 2 ELSE m.n
            base == net[1].out.val.p
            created == net[2].req.body["sync_variants"].p
        IN /\ Len(created) = (IF Len(base) < 5 THEN Len(base) ELSE 5)
           /\ \A i \in 1..Len(created) :
                /\ created[i].n = base[i].n
                /\ VariantPrice(created[i]).n = VariantPrice(base[i]).n * factor

\* C9: every request createDraftOrder sends is POST /orders with confirm:false
\* in its body, whatever params holds.
C9_DraftNeverConfirmed ==
    cur.fn = "createDraftOrder" =>
        \A i \in 1..Len(net) :
            /\ net[i].req.method = "POST"
            /\ net[i].req.url = PRINTFUL_API_URL \o "/orders"
            /\ "confirm" \in DOMAIN net[i].req.body
            /\ net[i].req.body["confirm"] = Bool(FALSE)
            /\ \A k \in DOMAIN cur.arg \ {"confirm"} : net[i].req.body[k] = cur.arg[k]

\* a draft order whose params carry confirm:true has been sent
C9_Witness ==
    /\ cur.fn = "createDraftOrder"
    /\ Field(cur.arg, "confirm") = Bool(TRUE)
    /\ Len(net) = 1

----------------------------------------------------------------------------
(* Properties of the /api/printful route, checked under SpecRoute *)

GetTable ==
    [ a \in {"catalog", "product", "popular", "pricing", "store", "mockup-status"} |->
        CASE a = "catalog" -> "getCatalog"
          [] a = "product" -> "getProduct"
          [] a = "popular" -> "getPopularProducts"
          [] a = "pricing" -> "getProductPricing"
          [] a = "store" -> "getStoreInfo"
          [] OTHER -> "getMockupResult" ]
PostTable ==
    [ a \in {"shipping", "estimate", "mockup"} |->
        CASE a = "shipping" -> "getShippingRates"
          [] a = "estimate" -> "estimateCosts"
          [] OTHER -> "createMockupTask" ]

ActionOf(req) == IF req.action.t = "string" THEN req.action.s ELSE ""

\* C2: a request invokes at most one client function, the one its action
\* selects; a GET whose action is absent, 'info' or unrecognised invokes none
\* and returns the info document with success=true.
C2_DispatchByAction ==
    route.pc # "idle" =>
        LET a == ActionOf(route.req)
            table == IF route.req.method = "GET" THEN GetTable ELSE PostTable
        IN /\ Len(route.called) <= 1
           /\ Len(route.called) = 1 =>
                (a \in DOMAIN table /\ route.called[1].fn = table[a] /\ cur.fn = table[a])
           /\ route.called = <<>> => cur.pc = "idle"
           /\ (route.req.method = "GET" /\ a \notin DOMAIN GetTable) =>
                /\ route.called = <<>>
                /\ route.pc = "responded"
                /\ route.res = JsonResponse(200, Bool(TRUE), Undef, "info")

\* GET ?action=pricing&id=71 has called getProductPricing and has responded
C2_Witness ==
    /\ route.pc = "responded"
    /\ route.req.method = "GET"
    /\ route.req.action = Str("pricing")
    /\ Len(route.called) = 1
    /\ route.called[1] = Called("getProductPricing", [productId |-> Num(71)])
    /\ Len(net) = 1

\* C10: every response has a boolean `success` that is true exactly when the
\* status is 200 and false exactly when it is 400 or 500; an error thrown by a
\* client function does not leave the handler: it becomes the status-500
\* response {success: false, error: <message>}.
C10_SuccessMatchesStatus ==
    route.pc = "responded" =>
        /\ route.res.kind = "response"
        /\ route.res.success.t = "boolean"
        /\ route.res.status \in {200, 400, 500}
        /\ route.res.success = Bool(TRUE) <=> route.res.status = 200
        /\ route.res.success = Bool(FALSE) <=> route.res.status \in {400, 500}
        /\ (cur.pc = "done" /\ cur.out.st = "rejected") =>
              route.res = JsonResponse(500, Bool(FALSE), cur.out.val, "error")

\* a client function rejected with the provider's message and the handler
\* answered 500 with it
C10_Witness ==
    /\ route.pc = "responded"
    /\ cur.pc = "done"
    /\ cur.out = Rejected("Not found")
    /\ route.res.status = 500
    /\ route.res.error = Str("Not found")

----------------------------------------------------------------------------
(* Properties of the PrintfulBrowser component, checked under SpecBrowser *)

Views == {"catalog", "product", "estimate"}

\* C1: what is rendered is at most one of the catalog, product and estimate
\* views, and then the one `view` names; none is rendered while loading is
\* true or error is non-null: the loading screen comes first, then the error
\* screen, then the views.
C1_OneViewByState ==
    LET r == Render(ui) IN
    /\ r \in Views => (r = ui.view /\ ~ui.loading /\ ui.error = Null)
    /\ ui.loading => r = "loading"
    /\ (~ui.loading /\ ui.error # Null) => r = "error"
    /\ ui.pc \notin {"ready"} => r = "loading"

\* a failed shipping request on the product view: the error screen is
\* rendered although view names product and a product is selected
C1_Witness ==
    /\ ui.pc = "ready"
    /\ ui.view = "product"
    /\ Truthy(ui.selectedProduct)
    /\ Truthy(ui.selectedVariant)
    /\ ui.error # Null
    /\ Render(ui) = "error"

\* the parameters an action requires
RequiredOf(method, a) ==
    IF method = "GET"
    THEN CASE a \in {"product", "pricing"} -> {"id"}
           [] a = "mockup-status" -> {"task_key"}
           [] OTHER -> {}
    ELSE CASE a \in {"shipping", "estimate"} -> {"recipient", "items"}
           [] a = "mockup" -> {"productId", "variantIds", "files"}
           [] OTHER -> {}

HasAction(req) ==
    ActionOf(req) \in DOMAIN (IF req.method = "GET" THEN GetTable ELSE PostTable)

\* the value the handler reads for a parameter: searchParams.get gives null
\* for an absent query parameter, a body that is not an object has no field
ParamOf(req, k) ==
    IF req.method = "GET" THEN req[k]
    ELSE IF req.body.kind = "object" THEN Field(req.body.fields, k) ELSE Undef

Absent(v) == v \in {Null, Undef}

Answered(status) ==
    /\ route.pc = "responded"
    /\ route.called = <<>>
    /\ route.res.kind = "response"
    /\ route.res.status = status

\* C11 (as stated): a missing required parameter gets status 400 and no client
\* function is called; when all required parameters are present the client
\* function is called.
C11_AsStated ==
    (route.pc # "idle" /\ HasAction(route.req)) =>
        LET need == RequiredOf(route.req.method, ActionOf(route.req)) IN
        /\ (\E k \in need : Absent(ParamOf(route.req, k))) => Answered(400)
        /\ (\A k \in need : ~Absent(ParamOf(route.req, k))) => Len(route.called) = 1

\* C11 (amended): for a GET, and for a POST whose body is a JSON object, a
\* required parameter that is missing or falsy (an empty id, productId 0) gets
\* status 400 and no client function is called, and the client function is
\* called when every required parameter is truthy; a POST whose body is not
\* valid JSON, or is null, gets status 500 and no client function is called.
C11_RequiredParams ==
    (route.pc # "idle" /\ HasAction(route.req)) =>
        LET need == RequiredOf(route.req.method, ActionOf(route.req))
            parsed == route.req.method = "GET" \/ route.req.body.kind = "object"
        IN /\ (parsed /\ \E k \in need : ~Truthy(ParamOf(route.req, k))) => Answered(400)
           /\ (parsed /\ \A k \in need : Truthy(ParamOf(route.req, k))) =>
                (Len(route.called) = 1 /\ cur.pc # "idle")
           /\ ~parsed => Answered(500)

\* POST ?action=mockup whose body lacks files: 400, nothing called
C11_Witness ==
    /\ route.req.method = "POST"
    /\ ActionOf(route.req) = "mockup"
    /\ route.req.body.kind = "object"
    /\ Field(route.req.body.fields, "productId") = Num(71)
    /\ Truthy(Field(route.req.body.fields, "variantIds"))
    /\ Absent(Field(route.req.body.fields, "files"))
    /\ Answered(400)
    /\ cur.pc = "idle"

ALLOWED_ACTIONS == "Use: shipping, estimate, mockup"

NamesAllowedActions(message) ==
    message \in { Str("Action parameter required. " \o ALLOWED_ACTIONS),
                  Str("Unknown action: " \o ActionOf(route.req) \o ". " \o ALLOWED_ACTIONS) }

\* C12: a POST with no action, or with an action other than shipping, estimate
\* and mockup, gets status 400 with a message that names the allowed actions,
\* whatever its body, and no client function is called.
C12_UnknownPostAction ==
    (route.pc # "idle" /\ route.req.method = "POST" /\ ~HasAction(route.req)) =>
        /\ Answered(400)
        /\ route.res.success = Bool(FALSE)
        /\ NamesAllowedActions(route.res.error)

----------------------------------------------------------------------------
(* Properties of the download route, checked under SpecDownload *)

CheckOrder == <<"product", "file_path", "access", "path", "size", "read">>
FsCalls == {"fs.stat", "fs.readFile"}
IsPrefix(s, t) == Len(s) <= Len(t) /\ SubSeq(t, 1, Len(s)) = s
Made(name) == \E i \in 1..Len(dl.calls) : dl.calls[i] = name
PassedUpTo(k) == dl.passed = SubSeq(CheckOrder, 1, k)
TouchesFiles == (\E name \in FsCalls : Made(name)) \/ dl.res.file # EmptyPath

====
